---------------------------- MODULE Spec2Model ----------------------------
(***************************************************************************)
(* Fileverse, js/image-tools.js: the interactive crop selection of         *)
(* ImageCropTool.  The state is the tool object's fields; there is one     *)
(* action per event handler.  handleImageSelect is an async function: its  *)
(* synchronous part and the two continuations of its `await` are separate  *)
(* actions, and the loads it has started and not yet finished are the set  *)
(* pendingLoads.                                                           *)
(*                                                                         *)
(* Coordinates are canvas pixels.  The handlers scale client coordinates   *)
(* by canvas.width / rect.width; the model draws the scaled point          *)
(* directly.  The source computes in IEEE doubles; the model uses integers *)
(* and image sizes that are multiples of 4, for which width * 0.25 and     *)
(* width * 0.75 are exact.                                                 *)
(*                                                                         *)
(* Three more tools are modelled, each with a specification of its own     *)
(* over its own variables: the size and image fields of ImageCompressTool  *)
(* (SpecCompress), the trimming range of VideoTrimTool in                  *)
(* js/video-tools.js (SpecTrim) and the page selection of PDFToImageTool   *)
(* (SpecPdf).  SpecLoads is the load path of the crop tool with the last   *)
(* selection recorded.  A specification leaves the variables of the other  *)
(* tools as they are.                                                      *)
(***************************************************************************)
EXTENDS Integers, FiniteSets, Sequences, TLC

VARIABLES
    originalImage,   \* ImageCropTool.originalImage: NoImage (null) or the decoded file
    cropCanvas,      \* cropCanvas.width / cropCanvas.height
    containerShown,  \* '.canvas-container' is displayed (pointer events can reach the canvas)
    cropStartX, cropStartY, cropEndX, cropEndY,
    isDragging,
    dragMode,        \* "undefined" until the first startDrag
    dragOffset,      \* dragOffsetX / dragOffsetY: Undefined until the first move gesture
    pendingLoads,    \* files whose ImageTools.createImage promise is not settled yet
    gestures,        \* history: how many times startDrag has run
    lastSelected,    \* history: the file chosen last in the crop tool's file input
                     \* (NoImage before the first); recorded by SpecLoads only
    compressImage,   \* ImageCompressTool.originalImage: NoImage (null) or the decoded file
    originalSize,    \* ImageCompressTool.originalSize
    compressLoads,   \* files whose createImage promise in ImageCompressTool is not settled
    previewLoads,    \* images whose preview canvas awaits canvasToBlob
    compressionInfo, \* what the last preview reported: whose pixels, and the size it divided
    videoInfo,       \* VideoTrimTool.videoInfo: NoVideoInfo (null) or [duration]
    startTime,       \* VideoTrimTool.startTime
    endTime,         \* VideoTrimTool.endTime
    isDraggingStart, \* the flags of initTimeline's closure
    isDraggingEnd,
    pdfDocument,     \* PDFToImageTool.pdfDocument: NoDocument (null) or the loaded file
    pageCount,       \* PDFToImageTool.pageCount
    selectedPages,   \* PDFToImageTool.selectedPages
    pageRange,       \* the value of the 'pageRange' input element
    pdfLoads         \* files whose PDFTools.loadPDFDocument promise is not settled yet

vars == <<originalImage, cropCanvas, containerShown,
          cropStartX, cropStartY, cropEndX, cropEndY,
          isDragging, dragMode, dragOffset, pendingLoads, gestures>>

rectVars == <<cropStartX, cropStartY, cropEndX, cropEndY>>

\* The fields of ImageCompressTool, its loads in flight and its last report.
compressVars == <<compressImage, originalSize, compressLoads, previewLoads,
                  compressionInfo>>

\* The fields of VideoTrimTool and the drag flags of its timeline.  Times are
\* counted in ticks, TicksPerSecond to the second.
trimVars == <<videoInfo, startTime, endTime, isDraggingStart, isDraggingEnd>>

\* The fields of PDFToImageTool, its page-range input and its loads in flight.
pdfVars == <<pdfDocument, pageCount, selectedPages, pageRange, pdfLoads>>

\* What the handlers of the crop tool's canvas and buttons leave alone: the
\* history of SpecLoads and the other tools.
otherVars == <<lastSelected, compressVars, trimVars, pdfVars>>

allVars == <<vars, otherVars>>

---------------------------------------------------------------------------
(* Bounds and inputs *)

\* At most this many image loads are in flight at once.
MaxPending == 2

\* At most this many gestures (calls of startDrag) are begun in a run.
MaxGestures == 2

\* The resolution of the video times of the model: a tick is this fraction
\* of a second.
TicksPerSecond == 2

Pt(x, y) == [x |-> x, y |-> y]

\* Points of the canvas at which the model puts the pointer down: the begin
\* points of the specification's scenarios, two more corners of the initial
\* rectangle of the 400 x 200 image ((105, 145) is near the bottom-left corner
\* and inside the rectangle) and the end point of a new selection.
DownPoints ==
    { Pt(100, 50), Pt(200, 100), Pt(10, 10), Pt(60, 60), Pt(300, 50), Pt(105, 145) }

\* Points of the canvas to which the model moves the pointer: the update
\* points of the scenarios and a point up and left of the others.
MovePoints == { Pt(350, 150), Pt(250, 100), Pt(60, 60), Pt(10, 10) }

\* A touch stays bound to the canvas after it leaves it, so a touchmove can
\* report points beyond the canvas.
BeyondPoints == { Pt(500, 100), Pt(-50, 250) }

AllPoints == MovePoints \cup BeyondPoints

File(n, t, d, w, h) ==
    [name |-> n, isImage |-> t, decodes |-> d, width |-> w, height |-> h]

\* The files the user can pick: two images, an image that decodes with no
\* intrinsic size, an image whose decoding fails, and a file that is no image.
Files ==
    { File("a", TRUE, TRUE, 400, 200),
      File("b", TRUE, TRUE, 40, 40),
      File("z", TRUE, TRUE, 0, 0),
      File("broken", TRUE, FALSE, 0, 0),
      File("text", FALSE, FALSE, 0, 0) }

NoImage == [name |-> "null"]

\* file.size in bytes: every file has its own.
fileSize(file) ==
    CASE file.name = "a" -> 80000
      [] file.name = "b" -> 1600
      [] file.name = "z" -> 120
      [] file.name = "broken" -> 7
      [] file.name = "text" -> 11

\* The compression info elements before the first preview.
NoInfo == [pixels |-> NoImage, originalSize |-> 0]

NoVideoInfo == [name |-> "null"]

NoDocument == [name |-> "null"]

---------------------------------------------------------------------------
(* Text and numbers.  A text is a sequence of characters.  A JavaScript    *)
(* number is modelled as a record, so that NaN is a number as well.        *)

Num(n) == [isNaN |-> FALSE, value |-> n]
NaN == [isNaN |-> TRUE, value |-> 0]

Digits == {"0", "1", "2", "3", "4", "5", "6", "7", "8", "9"}

DigitValue(c) ==
    CASE c = "0" -> 0 [] c = "1" -> 1 [] c = "2" -> 2 [] c = "3" -> 3
      [] c = "4" -> 4 [] c = "5" -> 5 [] c = "6" -> 6 [] c = "7" -> 7
      [] c = "8" -> 8 [] c = "9" -> 9

\* String.prototype.trim, and the left half of it.
RECURSIVE trimStart(_)
trimStart(str) ==
    IF str # <<>> /\ Head(str) = " " THEN trimStart(Tail(str)) ELSE str

RECURSIVE trimEnd(_)
trimEnd(str) ==
    IF str # <<>> /\ str[Len(str)] = " "
      THEN trimEnd(SubSeq(str, 1, Len(str) - 1))
      ELSE str

trim(str) == trimEnd(trimStart(str))

\* The longest prefix of str that consists of digits.
RECURSIVE DigitPrefix(_)
DigitPrefix(str) ==
    IF str = <<>> \/ Head(str) \notin Digits
      THEN <<>>
      ELSE <<Head(str)>> \o DigitPrefix(Tail(str))

RECURSIVE DecimalValue(_, _)
DecimalValue(digits, acc) ==
    IF digits = <<>>
      THEN acc
      ELSE DecimalValue(Tail(digits), acc * 10 + DigitValue(Head(digits)))

\* parseInt(str) with no radix, for texts without a 0x prefix: leading white
\* space is skipped, a sign is read, then the longest prefix of decimal
\* digits is the value and whatever follows is ignored; NaN when there is no
\* digit at that place.
parseInt(str) ==
    LET t == trimStart(str)
        signed == t # <<>> /\ Head(t) \in {"-", "+"}
        digits == DigitPrefix(IF signed THEN Tail(t) ELSE t)
    IN  IF digits = <<>>
          THEN NaN
          ELSE Num(IF signed /\ Head(t) = "-"
                     THEN 0 - DecimalValue(digits, 0)
                     ELSE DecimalValue(digits, 0))

\* The place of the first separator in str, 0 when there is none.
IndexOf(str, separator) ==
    IF \E i \in 1..Len(str) : str[i] = separator
      THEN CHOOSE i \in 1..Len(str) :
             str[i] = separator /\ \A j \in 1..(i - 1) : str[j] # separator
      ELSE 0

\* str.split(separator): the pieces between the separators, in order.
RECURSIVE split(_, _)
split(str, separator) ==
    LET i == IndexOf(str, separator) IN
    IF i = 0
      THEN <<str>>
      ELSE <<SubSeq(str, 1, i - 1)>> \o split(SubSeq(str, i + 1, Len(str)), separator)

\* a * b and a + b of JavaScript numbers.
Times(a, b) == IF a.isNaN \/ b.isNaN THEN NaN ELSE Num(a.value * b.value)
Plus(a, b) == IF a.isNaN \/ b.isNaN THEN NaN ELSE Num(a.value + b.value)
Undefined == [undefined |-> TRUE]

---------------------------------------------------------------------------
(* Pure helpers of startDrag / updateDrag *)

Min(a, b) == IF a < b THEN a ELSE b
Max(a, b) == IF a > b THEN a ELSE b
Abs(a) == IF a < 0 THEN -a ELSE a

handleSize == 10
minSize == 20

\* Mutant of InitialStart: the margin is a fifth, not a quarter.
InitialStart_Fifth(d) == (d * 20) \div 100

\* handleImageSelect: width * 0.25 and width * 0.75
InitialStart(d) == (d * 25) \div 100
InitialEnd(d) == (d * 75) \div 100

\* Mutant of Constrain: the upper bound is forgotten.
Constrain_LowerOnly(limit, v) == Max(0, v)

\* Mutant of Constrain: the lower bound is forgotten.
Constrain_UpperOnly(limit, v) == Min(limit, v)

\* updateDrag: Math.max(0, Math.min(limit, v))
Constrain(limit, v) == Max(0, Min(limit, v))

\* startDrag: one corner test
NearHandle(x, y, hx, hy) == Abs(x - hx) < handleSize /\ Abs(y - hy) < handleSize

\* Mutant of InsideCrop: the border counts as inside.
InsideCrop_Closed(x, y) ==
    x >= cropStartX /\ x <= cropEndX /\ y >= cropStartY /\ y <= cropEndY

\* startDrag: the interior test
InsideCrop(x, y) ==
    x > cropStartX /\ x < cropEndX /\ y > cropStartY /\ y < cropEndY

\* Mutant of HitTest: the corners are tested in the reverse order.
HitTest_CornersReversed(x, y) ==
    IF NearHandle(x, y, cropEndX, cropEndY) THEN "bottomRight"
    ELSE IF NearHandle(x, y, cropStartX, cropEndY) THEN "bottomLeft"
    ELSE IF NearHandle(x, y, cropEndX, cropStartY) THEN "topRight"
    ELSE IF NearHandle(x, y, cropStartX, cropStartY) THEN "topLeft"
    ELSE IF InsideCrop(x, y) THEN "move"
    ELSE "new"

\* startDrag: the if / else-if chain that picks dragMode
HitTest(x, y) ==
    IF NearHandle(x, y, cropStartX, cropStartY) THEN "topLeft"
    ELSE IF NearHandle(x, y, cropEndX, cropStartY) THEN "topRight"
    ELSE IF NearHandle(x, y, cropStartX, cropEndY) THEN "bottomLeft"
    ELSE IF NearHandle(x, y, cropEndX, cropEndY) THEN "bottomRight"
    ELSE IF InsideCrop(x, y) THEN "move"
    ELSE "new"

\* Mutants of ResizeStart and ResizeEnd: the minimum size is forgotten.
ResizeStart_NoMinSize(end, v) == Min(end, v)
ResizeEnd_NoMinSize(start, v) == Max(start, v)

\* updateDrag: Math.min(end - minSize, v) of the topLeft / topRight / bottomLeft cases
ResizeStart(end, v) == Min(end - minSize, v)
\* updateDrag: Math.max(start + minSize, v)
ResizeEnd(start, v) == Max(start + minSize, v)

\* Mutant of MoveStart: the test against the canvas size is missing.
MoveStart_LowerOnly(v, offset, size, limit) ==
    LET n0 == v - offset
    IN  IF n0 < 0 THEN 0 ELSE n0

\* Mutant of MoveStart: the rectangle's corner snaps to the pointer (the drag
\* offset is ignored).
MoveStart_SnapsToPointer(v, offset, size, limit) ==
    LET n1 == IF v < 0 THEN 0 ELSE v
    IN  IF n1 + size > limit THEN limit - size ELSE n1

\* updateDrag, case 'move': newStartX (newStartY) after the two bounds tests.
\* The code tests both axes against 0 and then both against the canvas size;
\* the axes do not interact.
MoveStart(v, offset, size, limit) ==
    LET n0 == v - offset
        n1 == IF n0 < 0 THEN 0 ELSE n0
    IN  IF n1 + size > limit THEN limit - size ELSE n1

\* Mutant of MoveAxis: the bounds tests move the start but the end is taken
\* from the unclamped position.
MoveAxis_EndNotClamped(v, offset, start, end, limit) ==
    LET size == end - start
    IN  [start |-> MoveStart(v, offset, size, limit), end |-> v - offset + size]

\* updateDrag, case 'move', along one axis: the size is read first, the start
\* is moved, the end is the new start plus the size.
MoveAxis(v, offset, start, end, limit) ==
    LET size == end - start
        newStart == MoveStart(v, offset, size, limit)
    IN  [start |-> newStart, end |-> newStart + size]

\* Mutant of NewEnd: the minimum size of the resize cases is applied.
NewEnd_MinSize(start, v) == Max(start + minSize, v)

\* updateDrag, case 'new': the end corner is the constrained pointer
NewEnd(start, v) == v

---------------------------------------------------------------------------
(* The state after construction: the fields of the object literal.  A      *)
(* canvas element is 300 x 150 until its size is set, and the canvas       *)
(* container is displayed by handleImageSelect, once an image is loaded.   *)

Init ==
    /\ originalImage = NoImage
    /\ cropCanvas = [width |-> 300, height |-> 150]
    /\ containerShown = FALSE
    /\ cropStartX = 0 /\ cropStartY = 0 /\ cropEndX = 0 /\ cropEndY = 0
    /\ isDragging = FALSE
    /\ dragMode = "undefined"
    /\ dragOffset = Undefined
    /\ pendingLoads = {}
    /\ gestures = 0
    /\ lastSelected = NoImage
    /\ compressImage = NoImage
    /\ originalSize = 0
    /\ compressLoads = {}
    /\ previewLoads = {}
    /\ compressionInfo = NoInfo
    /\ videoInfo = NoVideoInfo
    /\ startTime = 0
    /\ endTime = 0
    /\ isDraggingStart = FALSE
    /\ isDraggingEnd = FALSE
    /\ pdfDocument = NoDocument
    /\ pageCount = 0
    /\ selectedPages = <<>>
    /\ pageRange = <<>>
    /\ pdfLoads = {}

---------------------------------------------------------------------------
(* handleImageSelect *)

Rectangle(sx, sy, ex, ey) ==
    [cropStartX |-> sx, cropStartY |-> sy, cropEndX |-> ex, cropEndY |-> ey]

\* "Initialize crop area to the center 50%"
initialCrop(img) ==
    Rectangle(InitialStart(img.width), InitialStart(img.height),
              InitialEnd(img.width), InitialEnd(img.height))

\* The synchronous part: the type check, then createImage starts the load.
HandleImageSelect(file) ==
    /\ IF ~file.isImage
         THEN UNCHANGED pendingLoads
         ELSE /\ file \notin pendingLoads
              /\ Cardinality(pendingLoads) < MaxPending
              /\ pendingLoads' = pendingLoads \cup {file}
    /\ UNCHANGED <<originalImage, cropCanvas, containerShown, rectVars,
                   isDragging, dragMode, dragOffset, gestures>>

\* img.onload: the await resumes and the try block runs to its end.
ImageLoaded(file) ==
    /\ file \in pendingLoads
    /\ file.decodes
    /\ pendingLoads' = pendingLoads \ {file}
    /\ originalImage' = file
    /\ cropCanvas' = [width |-> file.width, height |-> file.height]
    /\ cropStartX' = initialCrop(file).cropStartX
    /\ cropStartY' = initialCrop(file).cropStartY
    /\ cropEndX' = initialCrop(file).cropEndX
    /\ cropEndY' = initialCrop(file).cropEndY
    /\ containerShown' = TRUE
    /\ UNCHANGED <<isDragging, dragMode, dragOffset, gestures>>

\* Mutant of ImageFailed: a failed load also drops the image loaded before.
ImageFailed_ClearsImage(file) ==
    /\ file \in pendingLoads
    /\ ~file.decodes
    /\ pendingLoads' = pendingLoads \ {file}
    /\ originalImage' = NoImage
    /\ UNCHANGED <<cropCanvas, containerShown, rectVars,
                   isDragging, dragMode, dragOffset, gestures>>

\* img.onerror: the await throws and the catch block reports the error.
ImageFailed(file) ==
    /\ file \in pendingLoads
    /\ ~file.decodes
    /\ pendingLoads' = pendingLoads \ {file}
    /\ UNCHANGED <<originalImage, cropCanvas, containerShown, rectVars,
                   isDragging, dragMode, dragOffset, gestures>>

---------------------------------------------------------------------------
(* startDrag and updateDrag *)

\* Mutant of startDrag: a handle that is hit snaps to the pointer at once.
startDrag_HandleSnaps(x, y) ==
    LET mode == HitTest(x, y) IN
    [dragMode |-> mode,
     dragOffset |-> IF mode = "move"
                      THEN [X |-> x - cropStartX, Y |-> y - cropStartY]
                      ELSE dragOffset,
     cropStartX |-> IF mode \in {"new", "topLeft", "bottomLeft"} THEN x ELSE cropStartX,
     cropStartY |-> IF mode \in {"new", "topLeft", "topRight"} THEN y ELSE cropStartY,
     cropEndX |-> IF mode \in {"new", "topRight", "bottomRight"} THEN x ELSE cropEndX,
     cropEndY |-> IF mode \in {"new", "bottomLeft", "bottomRight"} THEN y ELSE cropEndY]

\* Mutant of startDrag: a drag offset left by an earlier gesture is kept.
startDrag_KeepsOffset(x, y) ==
    LET mode == HitTest(x, y) IN
    [dragMode |-> mode,
     dragOffset |-> IF mode = "move" /\ dragOffset = Undefined
                      THEN [X |-> x - cropStartX, Y |-> y - cropStartY]
                      ELSE dragOffset,
     cropStartX |-> IF mode = "new" THEN x ELSE cropStartX,
     cropStartY |-> IF mode = "new" THEN y ELSE cropStartY,
     cropEndX |-> IF mode = "new" THEN x ELSE cropEndX,
     cropEndY |-> IF mode = "new" THEN y ELSE cropEndY]

\* What startDrag(x, y) assigns: dragMode, the drag offset (only in the move
\* branch) and the rectangle (only in the new branch).
startDrag(x, y) ==
    LET mode == HitTest(x, y) IN
    [dragMode |-> mode,
     dragOffset |-> IF mode = "move"
                      THEN [X |-> x - cropStartX, Y |-> y - cropStartY]
                      ELSE dragOffset,
     cropStartX |-> IF mode = "new" THEN x ELSE cropStartX,
     cropStartY |-> IF mode = "new" THEN y ELSE cropStartY,
     cropEndX |-> IF mode = "new" THEN x ELSE cropEndX,
     cropEndY |-> IF mode = "new" THEN y ELSE cropEndY]

\* Mutant of updateDrag: the bottomLeft case writes the top edge as well.
updateDrag_BottomLeftMovesTop(px, py) ==
    LET x == Constrain(cropCanvas.width, px)
        y == Constrain(cropCanvas.height, py)
    IN  CASE dragMode = "topLeft" ->
               Rectangle(ResizeStart(cropEndX, x), ResizeStart(cropEndY, y),
                         cropEndX, cropEndY)
          [] dragMode = "topRight" ->
               Rectangle(cropStartX, ResizeStart(cropEndY, y),
                         ResizeEnd(cropStartX, x), cropEndY)
          [] dragMode = "bottomLeft" ->
               Rectangle(ResizeStart(cropEndX, x), ResizeStart(cropEndY, y),
                         cropEndX, ResizeEnd(cropStartY, y))
          [] dragMode = "bottomRight" ->
               Rectangle(cropStartX, cropStartY,
                         ResizeEnd(cropStartX, x), ResizeEnd(cropStartY, y))
          [] dragMode = "move" ->
               LET h == MoveAxis(x, dragOffset.X, cropStartX, cropEndX, cropCanvas.width)
                   v == MoveAxis(y, dragOffset.Y, cropStartY, cropEndY, cropCanvas.height)
               IN  Rectangle(h.start, v.start, h.end, v.end)
          [] dragMode = "new" ->
               Rectangle(cropStartX, cropStartY,
                         NewEnd(cropStartX, x), NewEnd(cropStartY, y))
          [] OTHER ->
               Rectangle(cropStartX, cropStartY, cropEndX, cropEndY)

\* What updateDrag(px, py) assigns to the rectangle: the pointer is
\* constrained to the canvas, then the switch on dragMode runs.
updateDrag(px, py) ==
    LET x == Constrain(cropCanvas.width, px)
        y == Constrain(cropCanvas.height, py)
    IN  CASE dragMode = "topLeft" ->
               Rectangle(ResizeStart(cropEndX, x), ResizeStart(cropEndY, y),
                         cropEndX, cropEndY)
          [] dragMode = "topRight" ->
               Rectangle(cropStartX, ResizeStart(cropEndY, y),
                         ResizeEnd(cropStartX, x), cropEndY)
          [] dragMode = "bottomLeft" ->
               Rectangle(ResizeStart(cropEndX, x), cropStartY,
                         cropEndX, ResizeEnd(cropStartY, y))
          [] dragMode = "bottomRight" ->
               Rectangle(cropStartX, cropStartY,
                         ResizeEnd(cropStartX, x), ResizeEnd(cropStartY, y))
          [] dragMode = "move" ->
               LET h == MoveAxis(x, dragOffset.X, cropStartX, cropEndX, cropCanvas.width)
                   v == MoveAxis(y, dragOffset.Y, cropStartY, cropEndY, cropCanvas.height)
               IN  Rectangle(h.start, v.start, h.end, v.end)
          [] dragMode = "new" ->
               Rectangle(cropStartX, cropStartY,
                         NewEnd(cropStartX, x), NewEnd(cropStartY, y))
          [] OTHER ->
               Rectangle(cropStartX, cropStartY, cropEndX, cropEndY)

StartDrag(x, y) ==
    LET r == startDrag(x, y) IN
    /\ dragMode' = r.dragMode
    /\ dragOffset' = r.dragOffset
    /\ cropStartX' = r.cropStartX /\ cropStartY' = r.cropStartY
    /\ cropEndX' = r.cropEndX /\ cropEndY' = r.cropEndY

UpdateDrag(px, py) ==
    LET r == updateDrag(px, py) IN
    /\ cropStartX' = r.cropStartX /\ cropStartY' = r.cropStartY
    /\ cropEndX' = r.cropEndX /\ cropEndY' = r.cropEndY

---------------------------------------------------------------------------
(* Pointer handlers.  An event is delivered to the canvas only when the     *)
(* canvas is displayed and has an area.                                     *)

CanvasReachable ==
    containerShown /\ cropCanvas.width > 0 /\ cropCanvas.height > 0

OnCanvas(p) ==
    /\ 0 <= p.x /\ p.x <= cropCanvas.width
    /\ 0 <= p.y /\ p.y <= cropCanvas.height

\* The fields the gesture handlers read and write
GestureState ==
    [isDragging |-> isDragging, dragMode |-> dragMode, dragOffset |-> dragOffset,
     cropStartX |-> cropStartX, cropStartY |-> cropStartY,
     cropEndX |-> cropEndX, cropEndY |-> cropEndY]

SetGestureState(st) ==
    /\ isDragging' = st.isDragging
    /\ dragMode' = st.dragMode
    /\ dragOffset' = st.dragOffset
    /\ cropStartX' = st.cropStartX /\ cropStartY' = st.cropStartY
    /\ cropEndX' = st.cropEndX /\ cropEndY' = st.cropEndY

\* What onMouseDown(e) does to the fields, p being the scaled point of e:
\* this.isDragging = true, then startDrag
onMouseDown(p) ==
    LET r == startDrag(p.x, p.y) IN
    [isDragging |-> TRUE, dragMode |-> r.dragMode, dragOffset |-> r.dragOffset,
     cropStartX |-> r.cropStartX, cropStartY |-> r.cropStartY,
     cropEndX |-> r.cropEndX, cropEndY |-> r.cropEndY]

\* What onMouseMove(e) does to the fields: nothing unless isDragging, else
\* updateDrag
onMouseMove(p) ==
    IF ~isDragging THEN GestureState
    ELSE LET r == updateDrag(p.x, p.y) IN
         [GestureState EXCEPT !.cropStartX = r.cropStartX, !.cropStartY = r.cropStartY,
                              !.cropEndX = r.cropEndX, !.cropEndY = r.cropEndY]

\* What onTouchStart(e) does to the fields; touches: e.touches.length,
\* p: the scaled point of e.touches[0]
onTouchStart(touches, p) ==
    IF touches = 1
      THEN LET r == startDrag(p.x, p.y) IN
           [isDragging |-> TRUE, dragMode |-> r.dragMode, dragOffset |-> r.dragOffset,
            cropStartX |-> r.cropStartX, cropStartY |-> r.cropStartY,
            cropEndX |-> r.cropEndX, cropEndY |-> r.cropEndY]
      ELSE GestureState

\* Mutant of onTouchMove: the number of touches is not tested.
onTouchMove_AnyTouches(touches, p) ==
    IF isDragging
      THEN LET r == updateDrag(p.x, p.y) IN
           [GestureState EXCEPT !.cropStartX = r.cropStartX, !.cropStartY = r.cropStartY,
                                !.cropEndX = r.cropEndX, !.cropEndY = r.cropEndY]
      ELSE GestureState

\* What onTouchMove(e) does to the fields
onTouchMove(touches, p) ==
    IF isDragging /\ touches = 1
      THEN LET r == updateDrag(p.x, p.y) IN
           [GestureState EXCEPT !.cropStartX = r.cropStartX, !.cropStartY = r.cropStartY,
                                !.cropEndX = r.cropEndX, !.cropEndY = r.cropEndY]
      ELSE GestureState

OnMouseDown(p) ==
    /\ CanvasReachable /\ OnCanvas(p)
    /\ gestures < MaxGestures
    /\ SetGestureState(onMouseDown(p))
    /\ gestures' = gestures + 1
    /\ UNCHANGED <<originalImage, cropCanvas, containerShown, pendingLoads>>

\* Mutant of OnMouseMove: the early return on !isDragging is missing.
OnMouseMove_NoGuard(p) ==
    /\ CanvasReachable /\ OnCanvas(p)
    /\ UpdateDrag(p.x, p.y)
    /\ UNCHANGED <<originalImage, cropCanvas, containerShown, pendingLoads,
                   isDragging, dragMode, dragOffset, gestures>>

OnMouseMove(p) ==
    /\ CanvasReachable /\ OnCanvas(p)
    /\ SetGestureState(onMouseMove(p))
    /\ UNCHANGED <<originalImage, cropCanvas, containerShown, pendingLoads, gestures>>

\* Mutant of onMouseUp: the flag is toggled instead of cleared.
onMouseUp_Toggles(st) == [st EXCEPT !.isDragging = ~st.isDragging]

\* What onMouseUp() does to the fields: this.isDragging = false
onMouseUp(st) == [st EXCEPT !.isDragging = FALSE]

\* Mutant of onTouchEnd: the touch handler clears the mode as well.
onTouchEnd_ClearsMode(st) == [st EXCEPT !.isDragging = FALSE, !.dragMode = "undefined"]

\* What onTouchEnd(e) does to the fields: this.isDragging = false
onTouchEnd(st) == [st EXCEPT !.isDragging = FALSE]

\* mouseup and mouseleave
OnMouseUp ==
    /\ CanvasReachable
    /\ SetGestureState(onMouseUp(GestureState))
    /\ UNCHANGED <<originalImage, cropCanvas, containerShown, pendingLoads, gestures>>

\* touches: the number of touch points of the event; p: the first of them
OnTouchStart(touches, p) ==
    /\ CanvasReachable /\ OnCanvas(p)
    /\ IF touches = 1
         THEN gestures < MaxGestures /\ gestures' = gestures + 1
         ELSE UNCHANGED gestures
    /\ SetGestureState(onTouchStart(touches, p))
    /\ UNCHANGED <<originalImage, cropCanvas, containerShown, pendingLoads>>

OnTouchMove(touches, p) ==
    /\ CanvasReachable
    /\ SetGestureState(onTouchMove(touches, p))
    /\ UNCHANGED <<originalImage, cropCanvas, containerShown, pendingLoads, gestures>>

OnTouchEnd ==
    /\ CanvasReachable
    /\ SetGestureState(onTouchEnd(GestureState))
    /\ UNCHANGED <<originalImage, cropCanvas, containerShown, pendingLoads, gestures>>

---------------------------------------------------------------------------
(* performCrop: the click handler of the crop button *)

\* What performCrop() produces: the error message when there is no image,
\* else the result canvas, cropWidth x cropHeight, drawn from the source
\* region that starts at (cropStartX, cropStartY).
performCrop ==
    IF originalImage = NoImage
      THEN [error |-> "Please select an image first"]
      ELSE [x |-> cropStartX, y |-> cropStartY,
            width |-> cropEndX - cropStartX, height |-> cropEndY - cropStartY]

\* performCrop writes to the result container of the page only; no field of
\* the tool changes.  The button is outside the canvas container.
PerformCrop == UNCHANGED vars

\* A touch event carries one touch point or several; the handlers read the
\* first point, and only of a single-touch event, so a multi-touch event is
\* drawn with one first point.
TouchCounts == {1, 2}
FirstTouch(touches, points) ==
    IF touches = 1 THEN points ELSE {CHOOSE p \in DownPoints : TRUE}

Next ==
    \/ \E f \in Files : HandleImageSelect(f) /\ UNCHANGED otherVars
    \/ \E f \in Files : ImageLoaded(f) /\ UNCHANGED otherVars
    \/ \E f \in Files : ImageFailed(f) /\ UNCHANGED otherVars
    \/ \E p \in DownPoints : OnMouseDown(p) /\ UNCHANGED otherVars
    \/ \E p \in MovePoints : OnMouseMove(p) /\ UNCHANGED otherVars
    \/ OnMouseUp /\ UNCHANGED otherVars
    \/ \E n \in TouchCounts : \E p \in FirstTouch(n, DownPoints) :
          OnTouchStart(n, p) /\ UNCHANGED otherVars
    \/ \E n \in TouchCounts : \E p \in FirstTouch(n, AllPoints) :
          OnTouchMove(n, p) /\ UNCHANGED otherVars
    \/ OnTouchEnd /\ UNCHANGED otherVars
    \/ PerformCrop /\ UNCHANGED otherVars

Spec == Init /\ [][Next]_vars

---------------------------------------------------------------------------
(* Overlapping selections in the crop tool: the load path alone, with the  *)
(* order of the selections recorded.  The actions are those of Spec; a     *)
(* selection also notes its file in lastSelected.                          *)

SelectImage(file) ==
    /\ HandleImageSelect(file)
    /\ lastSelected' = file
    /\ UNCHANGED <<compressVars, trimVars, pdfVars>>

NextLoads ==
    \/ \E f \in Files : SelectImage(f)
    \/ \E f \in Files : ImageLoaded(f) /\ UNCHANGED otherVars
    \/ \E f \in Files : ImageFailed(f) /\ UNCHANGED otherVars

SpecLoads == Init /\ [][NextLoads]_allVars

---------------------------------------------------------------------------
(* ImageCompressTool: handleImageSelect and updateCompressionPreview.      *)
(* Both are async functions; each is one action up to its await and one    *)
(* action per continuation.                                                *)

\* handleImageSelect up to its await: the type check, the assignment of
\* originalSize, then createImage starts the load.
CompressSelect(file) ==
    /\ IF ~file.isImage
         THEN UNCHANGED <<originalSize, compressLoads>>
         ELSE /\ file \notin compressLoads
              /\ Cardinality(compressLoads) < MaxPending
              /\ originalSize' = fileSize(file)
              /\ compressLoads' = compressLoads \cup {file}
    /\ UNCHANGED <<compressImage, previewLoads, compressionInfo>>

\* updateCompressionPreview up to its await: the preview canvas is drawn
\* from originalImage, then canvasToBlob starts.
updateCompressionPreview(image) ==
    IF image = NoImage THEN previewLoads ELSE previewLoads \cup {image}

\* img.onload: originalImage is assigned and the try block runs on to its
\* call of updateCompressionPreview.
CompressLoaded(file) ==
    /\ file \in compressLoads
    /\ file.decodes
    /\ compressLoads' = compressLoads \ {file}
    /\ compressImage' = file
    /\ previewLoads' = updateCompressionPreview(file)
    /\ UNCHANGED <<originalSize, compressionInfo>>

\* img.onerror: the catch block reports the error.
CompressFailed(file) ==
    /\ file \in compressLoads
    /\ ~file.decodes
    /\ compressLoads' = compressLoads \ {file}
    /\ UNCHANGED <<compressImage, originalSize, previewLoads, compressionInfo>>

\* The quality slider's 'input' event.
QualityInput ==
    /\ previewLoads' = updateCompressionPreview(compressImage)
    /\ UNCHANGED <<compressImage, originalSize, compressLoads, compressionInfo>>

\* canvasToBlob resolves: the ratio is computed from this.originalSize as it
\* is now and the blob of the canvas drawn before the await.
PreviewReady(image) ==
    /\ image \in previewLoads
    /\ previewLoads' = previewLoads \ {image}
    /\ compressionInfo' = [pixels |-> image, originalSize |-> originalSize]
    /\ UNCHANGED <<compressImage, originalSize, compressLoads>>

NextCompress ==
    \/ \E f \in Files : CompressSelect(f) /\ UNCHANGED <<vars, lastSelected, trimVars, pdfVars>>
    \/ \E f \in Files : CompressLoaded(f) /\ UNCHANGED <<vars, lastSelected, trimVars, pdfVars>>
    \/ \E f \in Files : CompressFailed(f) /\ UNCHANGED <<vars, lastSelected, trimVars, pdfVars>>
    \/ QualityInput /\ UNCHANGED <<vars, lastSelected, trimVars, pdfVars>>
    \/ \E f \in Files : PreviewReady(f) /\ UNCHANGED <<vars, lastSelected, trimVars, pdfVars>>

SpecCompress == Init /\ [][NextCompress]_allVars

---------------------------------------------------------------------------
(* VideoTrimTool (js/video-tools.js): the trimming range.  The listeners   *)
(* of the time inputs and of the handles are added by initTimeline, which  *)
(* handleVideoSelect calls once the video's metadata is there.             *)

\* video.duration of the videos the user can pick, in ticks: half a second,
\* two seconds and a half, and four seconds.
Durations == {1, 5, 8}

\* What the user can type into a time input.
TimeTexts ==
    { <<"0">>, <<"1">>, <<"2">>, <<"4">>, <<"9">>,
      <<"0", ":", "0", "3">>, <<"0", ":", "0", ":", "0", "1">>,
      <<"-", "1">>, <<"x">>, <<>> }

\* position * duration for the positions of the pointer along the timeline,
\* in ticks; the pointer can be left and right of the timeline.
DragTimes == (0 - 2)..10

\* handleVideoSelect, for a video file whose metadata loads.
HandleVideoSelect(duration) ==
    /\ videoInfo' = [duration |-> duration]
    /\ startTime' = 0
    /\ endTime' = duration
    /\ UNCHANGED <<isDraggingStart, isDraggingEnd>>

\* The seconds a time input's text stands for, as both change listeners
\* compute them: HH:MM:SS, MM:SS or SS, each part read by parseInt.
timeSeconds(timeStr) ==
    LET parts == split(timeStr, ":")
        timeParts == [i \in 1..Len(parts) |-> parseInt(parts[i])]
    IN  IF Len(timeParts) = 3
          THEN Plus(Plus(Times(timeParts[1], Num(3600)), Times(timeParts[2], Num(60))),
                    timeParts[3])
          ELSE IF Len(timeParts) = 2
                 THEN Plus(Times(timeParts[1], Num(60)), timeParts[2])
                 ELSE timeParts[1]

\* seconds as ticks; a comparison with NaN is false.
Ticks(seconds) == seconds.value * TicksPerSecond

\* The change listener of the start time input.
startTimeChange(timeStr) ==
    LET seconds == timeSeconds(timeStr) IN
    IF ~seconds.isNaN /\ Ticks(seconds) >= 0 /\ Ticks(seconds) < endTime
      THEN Ticks(seconds)
      ELSE startTime

\* The change listener of the end time input.
endTimeChange(timeStr) ==
    LET seconds == timeSeconds(timeStr) IN
    IF ~seconds.isNaN /\ Ticks(seconds) > startTime
         /\ Ticks(seconds) <= videoInfo.duration
      THEN Ticks(seconds)
      ELSE endTime

StartTimeChange(timeStr) ==
    /\ videoInfo # NoVideoInfo
    /\ startTime' = startTimeChange(timeStr)
    /\ UNCHANGED <<videoInfo, endTime, isDraggingStart, isDraggingEnd>>

EndTimeChange(timeStr) ==
    /\ videoInfo # NoVideoInfo
    /\ endTime' = endTimeChange(timeStr)
    /\ UNCHANGED <<videoInfo, startTime, isDraggingStart, isDraggingEnd>>

\* mousedown on the start handle, on the end handle.
HandleStartMouseDown ==
    /\ videoInfo # NoVideoInfo
    /\ isDraggingStart' = TRUE
    /\ UNCHANGED <<videoInfo, startTime, endTime, isDraggingEnd>>

HandleEndMouseDown ==
    /\ videoInfo # NoVideoInfo
    /\ isDraggingEnd' = TRUE
    /\ UNCHANGED <<videoInfo, startTime, endTime, isDraggingStart>>

\* The mousemove listener of the document; time is position * duration.
TrimMouseMove(time) ==
    /\ videoInfo # NoVideoInfo
    /\ IF isDraggingStart
         THEN /\ startTime' = Max(0, Min(endTime - TicksPerSecond, time))
              /\ UNCHANGED endTime
         ELSE IF isDraggingEnd
                THEN /\ endTime' = Max(startTime + TicksPerSecond,
                                       Min(videoInfo.duration, time))
                     /\ UNCHANGED startTime
                ELSE UNCHANGED <<startTime, endTime>>
    /\ UNCHANGED <<videoInfo, isDraggingStart, isDraggingEnd>>

\* The mouseup listener of the document.
TrimMouseUp ==
    /\ videoInfo # NoVideoInfo
    /\ isDraggingStart' = FALSE
    /\ isDraggingEnd' = FALSE
    /\ UNCHANGED <<videoInfo, startTime, endTime>>

NextTrim ==
    \/ \E d \in Durations : HandleVideoSelect(d) /\ UNCHANGED <<vars, lastSelected, compressVars, pdfVars>>
    \/ \E t \in TimeTexts : StartTimeChange(t) /\ UNCHANGED <<vars, lastSelected, compressVars, pdfVars>>
    \/ \E t \in TimeTexts : EndTimeChange(t) /\ UNCHANGED <<vars, lastSelected, compressVars, pdfVars>>
    \/ HandleStartMouseDown /\ UNCHANGED <<vars, lastSelected, compressVars, pdfVars>>
    \/ HandleEndMouseDown /\ UNCHANGED <<vars, lastSelected, compressVars, pdfVars>>
    \/ \E t \in DragTimes : TrimMouseMove(t) /\ UNCHANGED <<vars, lastSelected, compressVars, pdfVars>>
    \/ TrimMouseUp /\ UNCHANGED <<vars, lastSelected, compressVars, pdfVars>>

SpecTrim == Init /\ [][NextTrim]_allVars

---------------------------------------------------------------------------
(* PDFToImageTool (PDF tools): the page selection.  init calls             *)
(* validatePageRange once, before any document is loaded, where it         *)
(* returns at once; after that only an 'input' event of the page-range     *)
(* input calls it.                                                         *)

PdfFile(n, t, d, pages) ==
    [name |-> n, isPdf |-> t, loads |-> d, numPages |-> pages]

\* The files the user can pick: a PDF of five pages, one of two pages, a PDF
\* that fails to load, and a file that is no PDF.
PdfFiles ==
    { PdfFile("five", TRUE, TRUE, 5),
      PdfFile("two", TRUE, TRUE, 2),
      PdfFile("damaged", TRUE, FALSE, 0),
      PdfFile("image", FALSE, FALSE, 0) }

\* What the user can type into the page-range input.
PageRangeTexts ==
    { <<>>, <<" ">>, <<"1">>, <<"2">>, <<"0">>, <<"6">>, <<"x">>,
      <<"4", "-", "5">>, <<"1", ",", "3">>, <<"3", ",", "1", ",", "3">>,
      <<"2", "-", "4", ",", "3">>, <<" ", "2", " ", "-", " ", "3", " ">>,
      <<"5", "-", "2">>, <<"1", ",">>, <<"-", "3">>,
      <<"2", "x">>, <<"1", "-", "3", "-", "5">> }

\* for (let i = start; i <= end; i++) selectedPages.push(i)
PagesFromTo(start, end) == [i \in 1..(end - start + 1) |-> start + i - 1]

\* The body of the loop over the parts: the pages a part adds, or the error
\* it throws.
pagesOfPart(part, count) ==
    IF IndexOf(part, "-") # 0
      THEN LET nums == split(part, "-")
               start == parseInt(trim(nums[1]))
               end == parseInt(trim(nums[2]))
           IN  IF start.isNaN \/ end.isNaN \/ start.value < 1
                    \/ end.value > count \/ start.value > end.value
                 THEN [error |-> TRUE, pages |-> <<>>]
                 ELSE [error |-> FALSE, pages |-> PagesFromTo(start.value, end.value)]
      ELSE LET page == parseInt(trim(part))
           IN  IF page.isNaN \/ page.value < 1 \/ page.value > count
                 THEN [error |-> TRUE, pages |-> <<>>]
                 ELSE [error |-> FALSE, pages |-> <<page.value>>]

\* The loop over the parts; the first error ends it.
RECURSIVE pagesOfParts(_, _)
pagesOfParts(parts, count) ==
    IF parts = <<>>
      THEN [error |-> FALSE, pages |-> <<>>]
      ELSE LET first == pagesOfPart(Head(parts), count)
               rest == pagesOfParts(Tail(parts), count)
           IN  IF first.error \/ rest.error
                 THEN [error |-> TRUE, pages |-> <<>>]
                 ELSE [error |-> FALSE, pages |-> first.pages \o rest.pages]

\* [...new Set(pages)].sort((a, b) => a - b)
RECURSIVE Ascending(_)
Ascending(set) ==
    IF set = {}
      THEN <<>>
      ELSE LET least == CHOOSE x \in set : \A y \in set : x <= y
           IN  <<least>> \o Ascending(set \ {least})

uniqueSorted(pages) == Ascending({pages[i] : i \in 1..Len(pages)})

\* validatePageRange once a document is there: the selectedPages it assigns
\* for the input's text and the tool's pageCount.
validatePageRange(text, count) ==
    LET value == trim(text) IN
    IF value = <<>>
      THEN PagesFromTo(1, count)
      ELSE LET parsed == pagesOfParts(split(value, ","), count)
           IN  IF parsed.error THEN <<>> ELSE uniqueSorted(parsed.pages)

\* handlePDFSelect up to its first await: the type check, then
\* loadPDFDocument starts.
HandlePDFSelect(file) ==
    /\ IF file.isPdf
         THEN /\ file \notin pdfLoads
              /\ Cardinality(pdfLoads) < MaxPending
              /\ pdfLoads' = pdfLoads \cup {file}
         ELSE UNCHANGED pdfLoads
    /\ UNCHANGED <<pdfDocument, pageCount, selectedPages, pageRange>>

\* loadPDFDocument resolves: the document and its page count are assigned;
\* the rest of the try block updates the page only.
PDFLoaded(file) ==
    /\ file \in pdfLoads
    /\ file.loads
    /\ pdfLoads' = pdfLoads \ {file}
    /\ pdfDocument' = file
    /\ pageCount' = file.numPages
    /\ UNCHANGED <<selectedPages, pageRange>>

\* loadPDFDocument rejects: the catch block reports the error.
PDFFailed(file) ==
    /\ file \in pdfLoads
    /\ ~file.loads
    /\ pdfLoads' = pdfLoads \ {file}
    /\ UNCHANGED <<pdfDocument, pageCount, selectedPages, pageRange>>

\* The 'input' event of the page-range input: the user has made text the
\* input's value and validatePageRange runs.
ValidatePageRange(text) ==
    /\ pageRange' = text
    /\ selectedPages' = IF pdfDocument = NoDocument
                          THEN selectedPages
                          ELSE validatePageRange(text, pageCount)
    /\ UNCHANGED <<pdfDocument, pageCount, pdfLoads>>

\* What convertToImages() does: one of its two error messages, or the pages
\* it asks pdfDocument.getPage for, in order.
convertToImages ==
    IF pdfDocument = NoDocument
      THEN [error |-> "Please select a PDF file first"]
      ELSE IF Len(selectedPages) = 0
             THEN [error |-> "Please select at least one page to convert"]
             ELSE [pages |-> selectedPages]

\* convertToImages writes to the result container of the page only.
ConvertToImages == UNCHANGED pdfVars

NextPdf ==
    \/ \E f \in PdfFiles : HandlePDFSelect(f) /\ UNCHANGED <<vars, lastSelected, compressVars, trimVars>>
    \/ \E f \in PdfFiles : PDFLoaded(f) /\ UNCHANGED <<vars, lastSelected, compressVars, trimVars>>
    \/ \E f \in PdfFiles : PDFFailed(f) /\ UNCHANGED <<vars, lastSelected, compressVars, trimVars>>
    \/ \E t \in PageRangeTexts : ValidatePageRange(t) /\ UNCHANGED <<vars, lastSelected, compressVars, trimVars>>
    \/ ConvertToImages /\ UNCHANGED <<vars, lastSelected, compressVars, trimVars>>

SpecPdf == Init /\ [][NextPdf]_allVars

---------------------------------------------------------------------------
(* The operations of the specification in terms of the handlers.           *)
(* beginGesture(p) is a mouse-down or a single-touch touch-start at p and  *)
(* runs startDrag(p); updateGesture(p) is a pointer-move at p while        *)
(* isDragging and runs updateDrag(p); endGesture is a mouse-up,            *)
(* mouse-leave or touch-end.                                               *)

Corners == {"topLeft", "topRight", "bottomLeft", "bottomRight"}

\* The points a beginGesture can carry in the current state
BeginPoints == IF CanvasReachable THEN {p \in DownPoints : OnCanvas(p)} ELSE {}

\* The points an updateGesture can carry in the current state
UpdatePoints == IF CanvasReachable /\ isDragging THEN AllPoints ELSE {}

\* The pointer as updateGesture is specified to clamp it
ClampedX(p) ==
    IF p.x < 0 THEN 0 ELSE IF p.x > cropCanvas.width THEN cropCanvas.width ELSE p.x
ClampedY(p) ==
    IF p.y < 0 THEN 0 ELSE IF p.y > cropCanvas.height THEN cropCanvas.height ELSE p.y

Rect == <<cropStartX, cropStartY, cropEndX, cropEndY>>
AsTuple(r) == <<r.cropStartX, r.cropStartY, r.cropEndX, r.cropEndY>>

\* p is within the handle tolerance (10) of the corner (hx, hy)
WithinTolerance(p, hx, hy) ==
    /\ p.x - hx < 10 /\ hx - p.x < 10
    /\ p.y - hy < 10 /\ hy - p.y < 10

HitsAHandle(p) ==
    \/ WithinTolerance(p, cropStartX, cropStartY)
    \/ WithinTolerance(p, cropEndX, cropStartY)
    \/ WithinTolerance(p, cropStartX, cropEndY)
    \/ WithinTolerance(p, cropEndX, cropEndY)

StrictlyInside(p) ==
    /\ cropStartX < p.x /\ p.x < cropEndX
    /\ cropStartY < p.y /\ p.y < cropEndY

\* The 400 x 200 image is loaded and its initial rectangle is untouched
Scenario == cropCanvas = [width |-> 400, height |-> 200] /\ Rect = <<100, 50, 300, 150>>

---------------------------------------------------------------------------
(* Claims *)

\* C1: in every reachable state the crop rectangle is normalized and inside
\* Bounds: 0 <= x0 <= x1 <= Bounds.width and 0 <= y0 <= y1 <= Bounds.height.
C1_RectNormalizedInBounds ==
    /\ 0 <= cropStartX /\ cropStartX <= cropEndX /\ cropEndX <= cropCanvas.width
    /\ 0 <= cropStartY /\ cropStartY <= cropEndY /\ cropEndY <= cropCanvas.height

\* C2: every updateGesture in a corner mode leaves the rectangle at least
\* minSize (20) wide and high, whatever the pointer and the rectangle before.
C2_CornerResizeKeepsMinSize ==
    dragMode \in Corners =>
        \A p \in UpdatePoints :
            LET r == updateDrag(p.x, p.y) IN
            /\ r.cropEndX - r.cropStartX >= 20
            /\ r.cropEndY - r.cropStartY >= 20

\* C2 witness: a topRight update whose pointer is left of and below the
\* opposite corner has ended on a rectangle of less than minSize x minSize
\* before the clamp: it is exactly minSize x minSize.
C2_Witness ==
    /\ isDragging /\ dragMode = "topRight"
    /\ cropEndX - cropStartX = 20 /\ cropEndY - cropStartY = 20
    /\ Rect = <<100, 130, 120, 150>>

\* C3: every Move-mode updateGesture leaves (x1 - x0, y1 - y0) as it was, so
\* the size stays what it was when the gesture began, also when the pointer
\* goes beyond Bounds.
C3_MovePreservesSize ==
    dragMode = "move" =>
        \A p \in UpdatePoints :
            LET r == updateDrag(p.x, p.y) IN
            /\ r.cropEndX - r.cropStartX = cropEndX - cropStartX
            /\ r.cropEndY - r.cropStartY = cropEndY - cropStartY

\* C3 witness: the initial 200 x 100 rectangle of the 400 x 200 image, moved
\* with a pointer beyond the right edge, has stopped at the edge with its size.
C3_Witness ==
    /\ isDragging /\ dragMode = "move"
    /\ cropCanvas.width = 400
    /\ Rect = <<200, 50, 400, 150>>

\* C4: endGesture (mouse-up, mouse-leave, touch-end) is idempotent: twice in
\* a row gives the rectangle, mode and drag offset that once gives; it leaves
\* the gesture inactive and touches neither rectangle, mode nor offset; with
\* no active gesture it changes nothing.
C4_EndGestureIdempotent ==
    CanvasReachable =>
        LET s0 == GestureState
            m1 == onMouseUp(s0)
            t1 == onTouchEnd(s0)
        IN  /\ onMouseUp(m1) = m1 /\ onTouchEnd(m1) = m1
            /\ onTouchEnd(t1) = t1 /\ onMouseUp(t1) = t1
            /\ ~m1.isDragging /\ ~t1.isDragging
            /\ m1 = [s0 EXCEPT !.isDragging = FALSE]
            /\ t1 = [s0 EXCEPT !.isDragging = FALSE]
            /\ (~isDragging => (m1 = s0 /\ t1 = s0))

\* C4 witness: a move gesture has been ended (only the end handlers clear
\* isDragging), and the mode and offset of that gesture are still in place.
C4_Witness ==
    /\ ~isDragging /\ dragMode = "move" /\ dragOffset # Undefined /\ gestures >= 1

\* C5: a completed load of a w x h image sets the rectangle to
\* (w/4, h/4, 3w/4, 3h/4); 400 x 200 gives (100, 50, 300, 150).
C5_InitialRectCentered ==
    /\ \A f \in pendingLoads :
         f.decodes =>
            LET r == initialCrop(f) IN
            /\ 4 * r.cropStartX = f.width /\ 4 * r.cropStartY = f.height
            /\ 4 * r.cropEndX = 3 * f.width /\ 4 * r.cropEndY = 3 * f.height
            /\ (f.width = 400 /\ f.height = 200) => AsTuple(r) = <<100, 50, 300, 150>>
    /\ (originalImage # NoImage /\ gestures = 0) =>
         /\ 4 * cropStartX = originalImage.width /\ 4 * cropStartY = originalImage.height
         /\ 4 * cropEndX = 3 * originalImage.width /\ 4 * cropEndY = 3 * originalImage.height

\* C5 witness: the 400 x 200 image is loaded and no gesture has touched the
\* rectangle.
C5_Witness ==
    /\ originalImage # NoImage /\ originalImage.width = 400 /\ originalImage.height = 200
    /\ gestures = 0
    /\ Rect = <<100, 50, 300, 150>>

\* C6: a gesture begun exactly on the top-left corner resolves to topLeft, and
\* a topLeft update sets x0 = min(x1 - 20, x), y0 = min(y1 - 20, y) for the
\* clamped pointer and leaves x1, y1 alone; from (100, 50, 300, 150),
\* beginGesture((100, 50)) then updateGesture((350, 150)) gives x0 = 280,
\* y0 = 130.
C6_TopLeftResize ==
    /\ \A p \in BeginPoints :
         (p.x = cropStartX /\ p.y = cropStartY)
           => startDrag(p.x, p.y).dragMode = "topLeft"
    /\ dragMode = "topLeft" =>
         \A p \in UpdatePoints :
            LET r == updateDrag(p.x, p.y)
                x == ClampedX(p)
                y == ClampedY(p)
            IN  /\ r.cropStartX = (IF cropEndX - 20 < x THEN cropEndX - 20 ELSE x)
                /\ r.cropStartY = (IF cropEndY - 20 < y THEN cropEndY - 20 ELSE y)
                /\ r.cropEndX = cropEndX /\ r.cropEndY = cropEndY
    /\ (Scenario /\ CanvasReachable /\ isDragging /\ dragMode = "topLeft")
         => AsTuple(updateDrag(350, 150)) = <<280, 130, 300, 150>>

\* C6 witness: the scenario has run: a topLeft gesture on the 400 x 200 image
\* has left the rectangle (280, 130, 300, 150).
C6_Witness ==
    /\ isDragging /\ dragMode = "topLeft"
    /\ cropCanvas.width = 400
    /\ Rect = <<280, 130, 300, 150>>

\* C7 as claimed: a gesture begun at any point strictly inside the rectangle
\* resolves to move, with DragOffset = p - (x0, y0).
C7_InteriorBeginsMove ==
    \A p \in BeginPoints :
        StrictlyInside(p) =>
            LET r == startDrag(p.x, p.y) IN
            /\ r.dragMode = "move"
            /\ r.dragOffset = [X |-> p.x - cropStartX, Y |-> p.y - cropStartY]

\* C7 as amended: a gesture begun at a point strictly inside the rectangle
\* that is not within the handle tolerance of a corner resolves to move, with
\* DragOffset = p - (x0, y0), and leaves the rectangle alone; a move update
\* at q that needs no clamping puts the top-left at q - DragOffset and keeps
\* the size; from (100, 50, 300, 150), beginGesture((200, 100)) gives offset
\* (100, 50) and updateGesture((250, 100)) gives (150, 50, 350, 150).
C7_InteriorOffHandlesBeginsMove ==
    /\ \A p \in BeginPoints :
         (StrictlyInside(p) /\ ~HitsAHandle(p)) =>
            LET r == startDrag(p.x, p.y) IN
            /\ r.dragMode = "move"
            /\ r.dragOffset = [X |-> p.x - cropStartX, Y |-> p.y - cropStartY]
            /\ AsTuple(r) = Rect
    /\ dragMode = "move" =>
         \A q \in UpdatePoints :
            LET w == cropEndX - cropStartX
                h == cropEndY - cropStartY
                nx == q.x - dragOffset.X
                ny == q.y - dragOffset.Y
            IN  ( /\ ClampedX(q) = q.x /\ ClampedY(q) = q.y
                  /\ 0 <= nx /\ nx + w <= cropCanvas.width
                  /\ 0 <= ny /\ ny + h <= cropCanvas.height )
                => AsTuple(updateDrag(q.x, q.y)) = <<nx, ny, nx + w, ny + h>>
    /\ (Scenario /\ CanvasReachable /\ isDragging /\ dragMode = "move"
          /\ dragOffset = [X |-> 100, Y |-> 50])
         => AsTuple(updateDrag(250, 100)) = <<150, 50, 350, 150>>

\* C7 witness: the scenario has run: the move gesture begun at (200, 100) has
\* carried the rectangle to (150, 50, 350, 150).
C7_Witness ==
    /\ isDragging /\ dragMode = "move"
    /\ dragOffset = [X |-> 100, Y |-> 50]
    /\ cropCanvas.width = 400
    /\ Rect = <<150, 50, 350, 150>>

\* C8: a gesture begun at a point that hits no handle and is not inside the
\* rectangle resolves to new and collapses the rectangle to that point; every
\* update of a new gesture leaves the start corner and sets the end corner to
\* the clamped pointer, with no minimum size; from (100, 50, 300, 150),
\* beginGesture((10, 10)) gives (10, 10, 10, 10) and updateGesture((60, 60))
\* gives (10, 10, 60, 60).
C8_NewSelection ==
    /\ \A p \in BeginPoints :
         (~HitsAHandle(p) /\ ~StrictlyInside(p)) =>
            LET r == startDrag(p.x, p.y) IN
            /\ r.dragMode = "new"
            /\ AsTuple(r) = <<p.x, p.y, p.x, p.y>>
    /\ dragMode = "new" =>
         \A q \in UpdatePoints :
            AsTuple(updateDrag(q.x, q.y))
              = <<cropStartX, cropStartY, ClampedX(q), ClampedY(q)>>
    /\ (Scenario /\ CanvasReachable) =>
         /\ startDrag(10, 10).dragMode = "new"
         /\ AsTuple(startDrag(10, 10)) = <<10, 10, 10, 10>>
    /\ (CanvasReachable /\ isDragging /\ dragMode = "new"
          /\ Rect = <<10, 10, 10, 10>> /\ cropCanvas.width = 400)
         => AsTuple(updateDrag(60, 60)) = <<10, 10, 60, 60>>

\* C8 witness: the scenario has run: a new gesture begun at (10, 10) and
\* updated at (60, 60) has left (10, 10, 60, 60).
C8_Witness ==
    /\ isDragging /\ dragMode = "new"
    /\ cropCanvas.width = 400
    /\ Rect = <<10, 10, 60, 60>>

\* C9: in every mode updateGesture(p) gives the rectangle updateGesture gives
\* for p clamped to Bounds; x = 500 with Bounds.width = 400 behaves as x = 400.
C9_UpdateClampsPointerFirst ==
    /\ \A p \in UpdatePoints :
         updateDrag(p.x, p.y) = updateDrag(ClampedX(p), ClampedY(p))
    /\ (CanvasReachable /\ isDragging /\ cropCanvas.width = 400) =>
         /\ updateDrag(500, 100) = updateDrag(400, 100)
         /\ dragMode = "new" => updateDrag(500, 100).cropEndX = 400

\* C9 witness: a new gesture on the 400 x 200 image has been updated with a
\* pointer beyond the right edge: its end corner is on the edge, where no
\* point of the canvas that the model draws lies.
C9_Witness ==
    /\ isDragging /\ dragMode = "new"
    /\ cropCanvas.width = 400
    /\ cropEndX = 400 /\ cropEndY = 100

\* C10: initialize fails for width <= 0 or height <= 0: no image with
\* non-positive bounds is installed and the tool does not show the editor
\* over an empty canvas.
C10_NonPositiveBoundsRejected ==
    /\ originalImage # NoImage => (originalImage.width > 0 /\ originalImage.height > 0)
    /\ containerShown => (cropCanvas.width > 0 /\ cropCanvas.height > 0)

\* What a pointer-move at p (mousemove, or a single-touch touchmove) makes of
\* the rectangle in the current state
pointerMove(p) ==
    IF isDragging THEN updateDrag(p.x, p.y)
    ELSE Rectangle(cropStartX, cropStartY, cropEndX, cropEndY)

\* C11: a completed load replaces the rectangle and ends the gesture: after
\* it no gesture is active (also when it completes while one is), and a
\* pointer-move does not change the new rectangle.
C11_LoadEndsGesture ==
    [][\A f \in Files :
         ImageLoaded(f) =>
            /\ AsTuple(initialCrop(f)) = Rect'
            /\ ~isDragging'
            /\ \A p \in AllPoints : AsTuple(pointerMove(p))' = Rect']_vars

\* Both corners of r lie inside [0, Bounds.width] x [0, Bounds.height]
CornersInBounds(r) ==
    /\ 0 <= r.cropStartX /\ r.cropStartX <= cropCanvas.width
    /\ 0 <= r.cropEndX /\ r.cropEndX <= cropCanvas.width
    /\ 0 <= r.cropStartY /\ r.cropStartY <= cropCanvas.height
    /\ 0 <= r.cropEndY /\ r.cropEndY <= cropCanvas.height

\* C12: once a gesture has begun, at whatever point, every updateGesture
\* leaves both corners of the rectangle inside Bounds.
C12_UpdatesKeepCornersInBounds ==
    \A p \in UpdatePoints : CornersInBounds(updateDrag(p.x, p.y))

\* C13: whenever an image is loaded, the region performCrop exports (and the
\* preview shows) has width > 0 and height > 0.
C13_ExportHasArea ==
    originalImage # NoImage =>
        /\ performCrop.width > 0
        /\ performCrop.height > 0

\* The corners of the rectangle that p is within the handle tolerance of
NearTL(p) == WithinTolerance(p, cropStartX, cropStartY)
NearTR(p) == WithinTolerance(p, cropEndX, cropStartY)
NearBL(p) == WithinTolerance(p, cropStartX, cropEndY)
NearBR(p) == WithinTolerance(p, cropEndX, cropEndY)

\* C14: beginGesture hit-tests in the order topLeft, topRight, bottomLeft,
\* bottomRight, move, new and the first match wins: a point within the
\* tolerance of a corner selects that corner's mode even when it is inside
\* the rectangle, and of several corners within tolerance the earliest in
\* the order is chosen.
C14_HitTestPrecedence ==
    \A p \in BeginPoints :
        LET m == startDrag(p.x, p.y).dragMode IN
        /\ NearTL(p) => m = "topLeft"
        /\ (~NearTL(p) /\ NearTR(p)) => m = "topRight"
        /\ (~NearTL(p) /\ ~NearTR(p) /\ NearBL(p)) => m = "bottomLeft"
        /\ (~NearTL(p) /\ ~NearTR(p) /\ ~NearBL(p) /\ NearBR(p)) => m = "bottomRight"
        /\ (HitsAHandle(p) /\ StrictlyInside(p)) => m \in Corners
        /\ ~HitsAHandle(p) => m \in {"move", "new"}

\* C14 witness: a gesture has begun on a rectangle collapsed to one point, at
\* that point: all four corners were within tolerance and topLeft was chosen.
C14_Witness ==
    /\ isDragging /\ dragMode = "topLeft"
    /\ Rect = <<10, 10, 10, 10>>
    /\ gestures = 2

\* C15: when no corner handle is hit, beginGesture(p) selects move if and
\* only if p is strictly inside the open rectangle; a point on the border or
\* outside it selects new.
C15_MoveIffStrictlyInside ==
    \A p \in BeginPoints :
        ~HitsAHandle(p) =>
            LET m == startDrag(p.x, p.y).dragMode IN
            /\ m = "move" <=> StrictlyInside(p)
            /\ m = "new" <=> ~StrictlyInside(p)

\* A point on the border of the rectangle
OnBorder(p) ==
    /\ cropStartX <= p.x /\ p.x <= cropEndX
    /\ cropStartY <= p.y /\ p.y <= cropEndY
    /\ ~StrictlyInside(p)

\* C15 witness: a new selection has been drawn to (10, 10, 250, 100), and a
\* gesture that begins at (200, 100), on its bottom edge and away from its
\* corners, starts a new selection.
C15_Witness ==
    /\ Rect = <<10, 10, 250, 100>>
    /\ gestures < MaxGestures
    /\ \E p \in BeginPoints :
         /\ p = Pt(200, 100)
         /\ OnBorder(p) /\ ~HitsAHandle(p)
         /\ startDrag(p.x, p.y).dragMode = "new"

Mode(st) == IF st.isDragging THEN st.dragMode ELSE "None"

\* The mode the hit-test of the specification gives for a gesture begun at p
\* on the current rectangle
ExpectedMode(p) ==
    IF NearTL(p) THEN "topLeft"
    ELSE IF NearTR(p) THEN "topRight"
    ELSE IF NearBL(p) THEN "bottomLeft"
    ELSE IF NearBR(p) THEN "bottomRight"
    ELSE IF StrictlyInside(p) THEN "move"
    ELSE "new"

C18_BeginDuringGestureIgnored ==
    [][isDragging =>
         \A p \in DownPoints :
            (OnMouseDown(p) \/ OnTouchStart(1, p))
              => UNCHANGED <<dragMode, dragOffset, rectVars>>]_vars

\* clamp(v, lo, hi) of the specification
Clamp(v, lo, hi) == IF v < lo THEN lo ELSE IF v > hi THEN hi ELSE v

\* The rectangle is normalized and inside Bounds
RectInsideBounds ==
    /\ 0 <= cropStartX /\ cropStartX <= cropEndX /\ cropEndX <= cropCanvas.width
    /\ 0 <= cropStartY /\ cropStartY <= cropEndY /\ cropEndY <= cropCanvas.height

\* C19: in move mode, on a rectangle inside Bounds, every updateGesture puts
\* the top-left at (clamp(x - DragOffset.x, 0, Bounds.width - width),
\* clamp(y - DragOffset.y, 0, Bounds.height - height)) for the clamped
\* pointer (x, y) and the bottom-right at the top-left plus (width, height),
\* so the rectangle is inside Bounds after the update.
C19_MoveClampsRectangleIntoBounds ==
    (dragMode = "move" /\ RectInsideBounds) =>
        \A p \in UpdatePoints :
            LET w == cropEndX - cropStartX
                h == cropEndY - cropStartY
                nx == Clamp(ClampedX(p) - dragOffset.X, 0, cropCanvas.width - w)
                ny == Clamp(ClampedY(p) - dragOffset.Y, 0, cropCanvas.height - h)
                r == updateDrag(p.x, p.y)
            IN  /\ AsTuple(r) = <<nx, ny, nx + w, ny + h>>
                /\ CornersInBounds(r)
                /\ r.cropStartX <= r.cropEndX /\ r.cropStartY <= r.cropEndY

\* C19 witness: the initial rectangle of the 400 x 200 image, taken at
\* (200, 100) and moved with the pointer at (350, 150), has stopped in the
\* bottom-right corner of Bounds: the unclamped top-left (250, 100) is
\* clamped to (200, 100).
C19_Witness ==
    /\ isDragging /\ dragMode = "move" /\ dragOffset = [X |-> 100, Y |-> 50]
    /\ cropCanvas = [width |-> 400, height |-> 200]
    /\ Rect = <<200, 100, 400, 200>>

\* min and max as the specification's resize formulas use them
SpecMin(a, b) == IF a <= b THEN a ELSE b
SpecMax(a, b) == IF a >= b THEN a ELSE b

\* C20: a corner update changes the dragged corner's two coordinates only,
\* by the stated formulas on the clamped pointer (x, y): topRight sets
\* x1 = max(x0 + minSize, x), y0 = min(y1 - minSize, y); bottomLeft sets
\* x0 = min(x1 - minSize, x), y1 = max(y0 + minSize, y); bottomRight sets
\* x1 = max(x0 + minSize, x), y1 = max(y0 + minSize, y); topLeft leaves
\* x1, y1 alone.
C20_CornerUpdateFrame ==
    \A p \in UpdatePoints :
        LET r == updateDrag(p.x, p.y)
            x == ClampedX(p)
            y == ClampedY(p)
        IN  /\ dragMode = "topRight" =>
                 AsTuple(r) = <<cropStartX, SpecMin(cropEndY - 20, y),
                                SpecMax(cropStartX + 20, x), cropEndY>>
            /\ dragMode = "bottomLeft" =>
                 AsTuple(r) = <<SpecMin(cropEndX - 20, x), cropStartY,
                                cropEndX, SpecMax(cropStartY + 20, y)>>
            /\ dragMode = "bottomRight" =>
                 AsTuple(r) = <<cropStartX, cropStartY,
                                SpecMax(cropStartX + 20, x), SpecMax(cropStartY + 20, y)>>
            /\ dragMode = "topLeft" =>
                 (r.cropEndX = cropEndX /\ r.cropEndY = cropEndY)

\* C20 witness: a bottomLeft gesture taken at (105, 145) on the initial
\* rectangle of the 400 x 200 image and updated at (250, 100) has set
\* x0 = min(300 - 20, 250) and y1 = max(50 + 20, 100) and left x1 and y0.
C20_Witness ==
    /\ isDragging /\ dragMode = "bottomLeft"
    /\ cropCanvas = [width |-> 400, height |-> 200]
    /\ Rect = <<250, 50, 300, 100>>

\* C21: from every state the touch handlers do to the fields what the mouse
\* handlers do: a single-touch touch-start at p gives the mode, drag offset
\* and rectangle that a mouse-down at p gives, a single-touch touch-move
\* those of a mouse-move, a touch-end those of a mouse-up; so two streams of
\* the same single-point events give the same fields after every event.
C21_TouchEqualsMouse ==
    CanvasReachable =>
        /\ \A p \in BeginPoints : onTouchStart(1, p) = onMouseDown(p)
        /\ \A p \in AllPoints :
             OnCanvas(p) => onTouchMove(1, p) = onMouseMove(p)
        /\ onTouchEnd(GestureState) = onMouseUp(GestureState)

\* C21 witness: a topRight gesture, begun at (300, 50) on the initial
\* rectangle of the 400 x 200 image and updated at (350, 150), is active; a
\* further update and the end of the gesture can come by mouse or by touch.
C21_Witness ==
    /\ isDragging /\ dragMode = "topRight"
    /\ cropCanvas = [width |-> 400, height |-> 200]
    /\ Rect = <<100, 130, 350, 150>>
    /\ onTouchMove(1, Pt(250, 100)) # GestureState
    /\ onTouchEnd(GestureState) # GestureState

\* C22: a touch-start or touch-move that carries more than one touch point
\* starts no gesture and changes neither the rectangle, the mode nor the
\* drag offset, whether or not a gesture is active.
C22_MultiTouchIgnored ==
    CanvasReachable =>
        \A n \in TouchCounts :
            n > 1 =>
                /\ \A p \in DownPoints : onTouchStart(n, p) = GestureState
                /\ \A p \in AllPoints : onTouchMove(n, p) = GestureState

\* C22 witness: a new gesture is active on the 400 x 200 image; a touch-move
\* with one touch at (500, 100) would move the end corner, the same event
\* with two touches leaves the fields alone.
C22_Witness ==
    /\ CanvasReachable /\ isDragging /\ dragMode = "new"
    /\ cropCanvas = [width |-> 400, height |-> 200]
    /\ onTouchMove(1, Pt(500, 100)) # GestureState
    /\ onTouchMove(2, Pt(500, 100)) = GestureState
    /\ onTouchStart(1, Pt(200, 100)) # GestureState
    /\ onTouchStart(2, Pt(200, 100)) = GestureState

\* C23: when Bounds is at least minSize wide and high and the rectangle of a
\* corner gesture is inside Bounds and at least minSize wide and high, every
\* updateGesture leaves all four coordinates inside Bounds with x0 <= x1 and
\* y0 <= y1 (and the rectangle at least minSize wide and high again, so the
\* condition carries over to the next update of the gesture).
C23_ResizeStaysInBounds ==
    ( /\ dragMode \in Corners
      /\ cropCanvas.width >= 20 /\ cropCanvas.height >= 20
      /\ RectInsideBounds
      /\ cropEndX - cropStartX >= 20 /\ cropEndY - cropStartY >= 20 )
    => \A p \in UpdatePoints :
          LET r == updateDrag(p.x, p.y) IN
          /\ CornersInBounds(r)
          /\ r.cropStartX <= r.cropEndX /\ r.cropStartY <= r.cropEndY
          /\ r.cropEndX - r.cropStartX >= 20 /\ r.cropEndY - r.cropStartY >= 20

\* C23 witness: a topRight gesture begun at (300, 50) on the initial
\* rectangle of the 400 x 200 image and updated by a touch at (500, 100),
\* beyond the right edge, has put the corner on the edge: (100, 100, 400, 150).
C23_Witness ==
    /\ isDragging /\ dragMode = "topRight"
    /\ cropCanvas = [width |-> 400, height |-> 200]
    /\ Rect = <<100, 100, 400, 150>>

\* C24: beginGesture changes the rectangle only in new mode: when the
\* hit-test resolves to a corner or to move, the four coordinates after a
\* mouse-down or a single-touch touch-start are those before it.
C24_BeginKeepsRectangleUnlessNew ==
    \A p \in BeginPoints :
        /\ startDrag(p.x, p.y).dragMode # "new" => AsTuple(startDrag(p.x, p.y)) = Rect
        /\ onMouseDown(p).dragMode # "new" => AsTuple(onMouseDown(p)) = Rect
        /\ onTouchStart(1, p).dragMode # "new" => AsTuple(onTouchStart(1, p)) = Rect

\* C24 witness: the first gesture on the 400 x 200 image has begun at
\* (105, 145), five units off the bottom-left handle, and the rectangle is
\* still the initial one.
C24_Witness ==
    /\ isDragging /\ dragMode = "bottomLeft" /\ gestures = 1
    /\ cropCanvas = [width |-> 400, height |-> 200]
    /\ Rect = <<100, 50, 300, 150>>

\* C25: once no load is pending, the original image, Bounds and the
\* rectangle are those of the file selected last (when that file is an image
\* that decodes), in whichever order the overlapping loads finished.
C25_LastSelectionWins ==
    (pendingLoads = {} /\ lastSelected # NoImage /\ lastSelected.isImage
        /\ lastSelected.decodes) =>
        /\ originalImage = lastSelected
        /\ cropCanvas = [width |-> lastSelected.width, height |-> lastSelected.height]
        /\ Rect = AsTuple(initialCrop(lastSelected))


\* C26: in the compression tool, whenever originalImage is set, originalSize
\* is the byte size of the file it was decoded from, and a reported
\* compression ratio divides the size of the file whose pixels it shows.
C26_SizeMatchesImage ==
    /\ compressImage # NoImage => originalSize = fileSize(compressImage)
    /\ compressionInfo # NoInfo =>
           compressionInfo.originalSize = fileSize(compressionInfo.pixels)


\* C27: selecting a file that is no image, or an image whose load fails,
\* leaves the original image, Bounds, the rectangle and the gesture state as
\* they were, and performCrop with no image loaded reports the error and
\* exports nothing.
C27_InputErrorsKeepState ==
    [][ /\ \A f \in Files :
             (\/ ~f.isImage /\ HandleImageSelect(f)
              \/ ~f.decodes /\ HandleImageSelect(f)
              \/ ImageFailed(f)) =>
                UNCHANGED <<originalImage, cropCanvas, containerShown, rectVars,
                            isDragging, dragMode, dragOffset>>
        /\ originalImage = NoImage =>
             performCrop = [error |-> "Please select an image first"]
      ]_vars

\* A load is about to fail in the middle of a gesture that has already moved
\* the rectangle of the loaded image.
C27_Witness ==
    /\ originalImage # NoImage
    /\ isDragging
    /\ Rect # AsTuple(initialCrop(originalImage))
    /\ \E f \in pendingLoads : ~f.decodes


\* C28: for a loaded video of duration D, after any sequence of handle
\* drags and manual time entries, 0 <= startTime < endTime <= D.
C28_TrimRangeInvariant ==
    videoInfo # NoVideoInfo =>
        /\ 0 <= startTime
        /\ startTime < endTime
        /\ endTime <= videoInfo.duration


\* A numeral is a non-empty text of decimal digits.
IsNumeral(str) == str # <<>> /\ \A i \in 1..Len(str) : str[i] \in Digits

\* What a comma-separated part of a page-range text lists for a document of
\* count pages: the page n for "n", the pages a..b for "a-b" (white space
\* around the numerals aside); a part that is not of these forms, or names a
\* page below 1 or above count, or a range whose start is above its end, is
\* invalid.
ListedBy(part, count) ==
    LET p == trim(part)
        ends == split(p, "-")
    IN  IF IsNumeral(p)
          THEN LET n == DecimalValue(p, 0)
               IN  [valid |-> n >= 1 /\ n <= count, pages |-> {n}]
          ELSE IF Len(ends) = 2 /\ IsNumeral(trim(ends[1])) /\ IsNumeral(trim(ends[2]))
                 THEN LET a == DecimalValue(trim(ends[1]), 0)
                          b == DecimalValue(trim(ends[2]), 0)
                      IN  [valid |-> a >= 1 /\ b <= count /\ a <= b, pages |-> a..b]
                 ELSE [valid |-> FALSE, pages |-> {}]

\* C29: for any page-range text and the page count N of the loaded
\* document, the selectedPages that validatePageRange assigns are strictly
\* increasing and within 1..N; they
\* are the union of the pages and ranges the parts list; they are empty when
\* any part is invalid; and an empty text selects all pages 1..N.
C29_PageRangeParsing ==
    pdfDocument # NoDocument => \A text \in PageRangeTexts :
        LET N == pageCount
            result == validatePageRange(text, N)
            parts == split(trim(text), ",")
            listed == [i \in 1..Len(parts) |-> ListedBy(parts[i], N)]
        IN  /\ \A i \in 1..Len(result) : result[i] \in 1..N
            /\ \A i \in 1..(Len(result) - 1) : result[i] < result[i + 1]
            /\ IF trim(text) = <<>>
                 THEN result = PagesFromTo(1, N)
                 ELSE IF \E i \in 1..Len(parts) : ~listed[i].valid
                        THEN result = <<>>
                        ELSE {result[i] : i \in 1..Len(result)}
                               = UNION {listed[i].pages : i \in 1..Len(parts)}

\* C30: whenever convertToImages goes on to render pages, selectedPages is
\* the selection that the current text of the page-range input denotes for
\* the loaded document, and every selected page is one of its pages.
C30_ConvertUsesCurrentSelection ==
    (pdfDocument # NoDocument /\ convertToImages = [pages |-> selectedPages]) =>
        /\ selectedPages = validatePageRange(pageRange, pdfDocument.numPages)
        /\ \A i \in 1..Len(selectedPages) : selectedPages[i] \in 1..pdfDocument.numPages

=============================================================================
